---- MODULE Spec2Model ----
(***************************************************************************)
(* Weather chatbot: ChatAgent (intent classification and response          *)
(* composition), WeatherAgent (Tomorrow.io client) and the Streamlit       *)
(* session loop of core/app.py.                                            *)
(*                                                                         *)
(* Python strings are sequences of symbols.  A symbol is either a single   *)
(* character the code inspects (a backtick, a brace, a whitespace          *)
(* character, the letters of the "json" tag) or a lexeme: a run of         *)
(* characters that no slice of the code ever cuts.  Python/JSON values     *)
(* are tagged records (JNull, JStr, JInt, JObj, JList).                    *)
(***************************************************************************)
EXTENDS Integers, Sequences, FiniteSets, TLC

(***************************************************************************)
(* Bounds of the model                                                     *)
(***************************************************************************)
MaxTurns == 2

(***************************************************************************)
(* Python / JSON values                                                    *)
(***************************************************************************)
JNull == [t |-> "null"]
JStr(s) == [t |-> "str", s |-> s]
JInt(i) == [t |-> "int", i |-> i]
JObj(f) == [t |-> "obj", o |-> f]
JList(l) == [t |-> "list", l |-> l]

EmptyMap == [k \in {} |-> JNull]

Put(m, k, v) == [x \in (DOMAIN m) \cup {k} |-> IF x = k THEN v ELSE m[x]]

Map1(k1, v1) == Put(EmptyMap, k1, v1)
Map2(k1, v1, k2, v2) == Put(Map1(k1, v1), k2, v2)

IsDict(v) == v.t = "obj"
IsList(v) == v.t = "list"

\* dict.get(key, default)
Get(d, k, default) == IF k \in DOMAIN d.o THEN d.o[k] ELSE default

\* Python truth value of an object
Truthy(v) ==
    CASE v.t = "null" -> FALSE
      [] v.t = "str" -> v.s # <<>>
      [] v.t = "int" -> v.i # 0
      [] v.t = "obj" -> DOMAIN v.o # {}
      [] v.t = "list" -> v.l # <<>>

\* Python: a or b
PyOr(a, b) == IF Truthy(a) THEN a ELSE b

\* str(v) / f"{v}": the text an f-string puts in place of a value
Fmt(v) ==
    CASE v.t = "null" -> <<"None">>
      [] v.t = "str" -> v.s
      [] v.t = "int" -> <<ToString(v.i)>>
      [] v.t = "obj" -> <<"{", "...", "}">>
      [] v.t = "list" -> <<"[", "...", "]">>

(***************************************************************************)
(* String helpers                                                          *)
(***************************************************************************)
WS == {" ", "\n"}

RECURSIVE lstrip(_)
lstrip(s) == IF s # <<>> /\ Head(s) \in WS THEN lstrip(Tail(s)) ELSE s

RECURSIVE rstrip(_)
rstrip(s) ==
    IF s # <<>> /\ s[Len(s)] \in WS THEN rstrip(SubSeq(s, 1, Len(s) - 1)) ELSE s

strip(s) == rstrip(lstrip(s))

startswith(s, p) == Len(s) >= Len(p) /\ SubSeq(s, 1, Len(p)) = p

endswith(s, p) == Len(s) >= Len(p) /\ SubSeq(s, Len(s) - Len(p) + 1, Len(s)) = p

\* s[n:]
DropFirst(s, n) == SubSeq(s, n + 1, Len(s))

\* s[:-n]
DropLast(s, n) == SubSeq(s, 1, Len(s) - n)

\* s.find(c) and s.rfind(c), 1-based; 0 stands for Python's -1
find(s, c) ==
    IF \E i \in 1..Len(s) : s[i] = c
    THEN CHOOSE i \in 1..Len(s) : s[i] = c /\ \A j \in 1..(i - 1) : s[j] # c
    ELSE 0

rfind(s, c) ==
    IF \E i \in 1..Len(s) : s[i] = c
    THEN CHOOSE i \in 1..Len(s) : s[i] = c /\ \A j \in (i + 1)..Len(s) : s[j] # c
    ELSE 0

Contains(s, piece) == \E i \in 1..Len(s) : s[i] = piece

\* s contains the text p as a contiguous run
ContainsText(s, p) ==
    \E i \in 0..(Len(s) - Len(p)) : SubSeq(s, i + 1, i + Len(p)) = p

(***************************************************************************)
(* json.loads over symbol sequences                                        *)
(***************************************************************************)
\* lexemes "key": value of the classifier's JSON
MemberLex ==
    { [lex |-> "\"action\":\"current_weather\"", k |-> "action",
       v |-> JStr(<<"current_weather">>)],
      [lex |-> "\"action\":\"forecast\"", k |-> "action", v |-> JStr(<<"forecast">>)],
      [lex |-> "\"action\":\"general\"", k |-> "action", v |-> JStr(<<"general">>)],
      [lex |-> "\"action\":\"smalltalk\"", k |-> "action", v |-> JStr(<<"smalltalk">>)],
      [lex |-> "\"city\":\"Paris\"", k |-> "city", v |-> JStr(<<"Paris">>)],
      [lex |-> "\"city\":\"\"", k |-> "city", v |-> JStr(<<>>)],
      [lex |-> "\"city\":\" \"", k |-> "city", v |-> JStr(<<" ">>)],
      [lex |-> "\"city\":null", k |-> "city", v |-> JNull],
      [lex |-> "\"location\":\"Oslo\"", k |-> "location", v |-> JStr(<<"Oslo">>)],
      [lex |-> "\"location\":\"\"", k |-> "location", v |-> JStr(<<>>)],
      [lex |-> "\"days\":0", k |-> "days", v |-> JInt(0)],
      [lex |-> "\"days\":3", k |-> "days", v |-> JInt(3)],
      [lex |-> "\"days\":12", k |-> "days", v |-> JInt(12)] }

\* lexemes "key": that a value follows
KeyLex == { [lex |-> "\"parameters\":", k |-> "parameters"] }

\* lexemes that are a whole JSON value
ScalarLex ==
    { [lex |-> "null", v |-> JNull],
      [lex |-> "42", v |-> JInt(42)],
      [lex |-> "\"hello\"", v |-> JStr(<<"hello">>)],
      [lex |-> "[]", v |-> JList(<<>>)] }

LexOf(table) == {e.lex : e \in table}
Entry(table, sym) == CHOOSE e \in table : e.lex = sym

ParseFail == [ok |-> FALSE, val |-> JNull, next |-> 0]

RECURSIVE ParseValue(_, _)
RECURSIVE ParseMembers(_, _, _)

ParseValue(t, i) ==
    IF i > Len(t) THEN ParseFail
    ELSE IF t[i] \in LexOf(ScalarLex)
         THEN [ok |-> TRUE, val |-> Entry(ScalarLex, t[i]).v, next |-> i + 1]
    ELSE IF t[i] = "{"
         THEN IF i + 1 <= Len(t) /\ t[i + 1] = "}"
              THEN [ok |-> TRUE, val |-> JObj(EmptyMap), next |-> i + 2]
              ELSE ParseMembers(t, i + 1, EmptyMap)
    ELSE ParseFail

ParseMembers(t, i, acc) ==
    IF i > Len(t) THEN ParseFail
    ELSE LET m == IF t[i] \in LexOf(MemberLex)
                  THEN [ok |-> TRUE, k |-> Entry(MemberLex, t[i]).k,
                        val |-> Entry(MemberLex, t[i]).v, next |-> i + 1]
                  ELSE IF t[i] \in LexOf(KeyLex)
                  THEN LET r == ParseValue(t, i + 1)
                       IN [ok |-> r.ok, k |-> Entry(KeyLex, t[i]).k,
                           val |-> r.val, next |-> r.next]
                  ELSE [ok |-> FALSE, k |-> "", val |-> JNull, next |-> 0]
         IN IF ~m.ok \/ m.next > Len(t) THEN ParseFail
            ELSE IF t[m.next] = ","
                 THEN ParseMembers(t, m.next + 1, Put(acc, m.k, m.val))
            ELSE IF t[m.next] = "}"
                 THEN [ok |-> TRUE, val |-> JObj(Put(acc, m.k, m.val)),
                       next |-> m.next + 1]
            ELSE ParseFail

\* json.loads: ok = FALSE stands for json.JSONDecodeError
json_loads(s) ==
    LET t == SelectSeq(s, LAMBDA c : c \notin WS)
        r == ParseValue(t, 1)
    IN IF r.ok /\ r.next = Len(t) + 1
       THEN [ok |-> TRUE, val |-> r.val]
       ELSE [ok |-> FALSE, val |-> JNull]

(***************************************************************************)
(* ChatAgent.process_query                                                 *)
(***************************************************************************)
\* the backtick character is written "BQ"
BQ == "BQ"
Fence == <<BQ, BQ, BQ>>
JsonTag == <<"j", "s", "o", "n">>

\* StripCodeFence cutting one character too many after the opening fence
StripCodeFenceOffByOne(c0) ==
    LET c1 == IF startswith(c0, Fence)
              THEN LET d == strip(DropFirst(c0, 4))
                   IN IF startswith(d, JsonTag) THEN strip(DropFirst(d, 4)) ELSE d
              ELSE c0
    IN IF endswith(c1, Fence) THEN strip(DropLast(c1, 3)) ELSE c1

\* chat_agent.py 69-74: remove markdown code block indicators
StripCodeFence(c0) ==
    LET c1 == IF startswith(c0, Fence)
              THEN LET d == strip(DropFirst(c0, 3))
                   IN IF startswith(d, JsonTag) THEN strip(DropFirst(d, 4)) ELSE d
              ELSE c0
    IN IF endswith(c1, Fence) THEN strip(DropLast(c1, 3)) ELSE c1

\* chat_agent.py 77-80: slice from the first { to the last }
ExtractJsonSpan(c) ==
    LET start_idx == find(c, "{")
        end_idx == rfind(c, "}")
    IN IF start_idx # 0 /\ end_idx # 0 /\ end_idx > start_idx
       THEN SubSeq(c, start_idx, end_idx)
       ELSE c

DefaultAction ==
    JObj(Map2("action", JStr(<<"general">>), "parameters", JObj(EmptyMap)))

\* An LLM call's outcome: a response with a text, a response whose text is
\* None, a response object without a text attribute, or an exception.
LlmText(txt) == [kind |-> "text", text |-> txt, err |-> <<>>]
LlmNoneText == [kind |-> "none", text |-> <<>>, err |-> <<>>]
\* str(response) of a response object without a text attribute
ResponseRepr == <<"GenerateContentResponse(...)">>

\* a response without a text attribute; text holds str(response)
LlmStr(repr) == [kind |-> "notext", text |-> repr, err |-> <<>>]
LlmNoTextAttr == LlmStr(ResponseRepr)
LlmFail(e) == [kind |-> "fail", text |-> <<>>, err |-> e]

\* the sanitize-and-parse pipeline on the response text (lines 67-83)
ParseClassifierText(txt) ==
    json_loads(ExtractJsonSpan(StripCodeFence(strip(txt))))

process_query(r) ==
    IF r.kind = "text"
    THEN LET p == ParseClassifierText(r.text)
         IN IF p.ok THEN p.val ELSE DefaultAction
    ELSE DefaultAction

(***************************************************************************)
(* WeatherAgent                                                            *)
(***************************************************************************)
\* What requests.get(...), raise_for_status() and response.json() can do:
\* kind "ok" (status 200, body decoded to body), "timeout", "connection",
\* "http" (HTTPError with status; body is the decoded error body and
\* bodyOk tells whether it decoded), "other" (any other RequestException,
\* among them a 200 body that is not JSON).
HttpOk(b) == [kind |-> "ok", status |-> 200, body |-> b, bodyOk |-> TRUE]
HttpTimeout == [kind |-> "timeout", status |-> 0, body |-> JNull, bodyOk |-> FALSE]
HttpConnection == [kind |-> "connection", status |-> 0, body |-> JNull, bodyOk |-> FALSE]
HttpError(st, b, ok) == [kind |-> "http", status |-> st, body |-> b, bodyOk |-> ok]
HttpOther == [kind |-> "other", status |-> 0, body |-> JNull, bodyOk |-> FALSE]

ErrorResult(reason) == JObj(Map1("error", reason))

\* x in container for the key "message" / "error" on a decoded JSON value;
\* raises TypeError on a number or None
InRaises(v) == v.t \in {"int", "null"}
In(key, v) ==
    CASE v.t = "obj" -> key \in DOMAIN v.o
      [] v.t = "list" -> \E i \in 1..Len(v.l) : v.l[i] = JStr(<<key>>)
      [] v.t = "str" -> Contains(v.s, key)
      [] OTHER -> FALSE

\* weather_agent.py 49-69 / 102-122: the HTTPError handler.  On a 401 the
\* message of the error body is used when the body decodes to a dict that has
\* one; anything else is swallowed by the bare except at 61 / 114.
\* HttpErrorReason whose 404 message does not name the location
HttpErrorReasonAnonymous(location, net) ==
    IF net.status = 404
    THEN JStr(<<"Location not found. Please check the spelling.">>)
    ELSE IF net.status = 401
    THEN IF net.bodyOk /\ IsDict(net.body) /\ "message" \in DOMAIN net.body.o
         THEN net.body.o["message"]
         ELSE JStr(<<"Invalid or missing API key for Tomorrow.io weather service">>)
    ELSE IF net.status = 400
    THEN JStr(<<"Bad request. Please check the location format.">>)
    ELSE JStr(<<"Weather API error: ", ToString(net.status), " - ", "reason">>)

HttpErrorReason(location, net) ==
    IF net.status = 404
    THEN JStr(<<"Location '">> \o Fmt(location)
              \o <<"' not found. Please check the spelling.">>)
    ELSE IF net.status = 401
    THEN IF net.bodyOk /\ IsDict(net.body) /\ "message" \in DOMAIN net.body.o
         THEN net.body.o["message"]
         ELSE JStr(<<"Invalid or missing API key for Tomorrow.io weather service">>)
    ELSE IF net.status = 400
    THEN JStr(<<"Bad request. Please check the location format.">>)
    ELSE JStr(<<"Weather API error: ", ToString(net.status), " - ", "reason">>)

\* weather_agent.py 38-71 / 91-124: the request and its exception handlers
Fetch(location, net) ==
    CASE net.kind = "ok" -> net.body
      [] net.kind = "timeout" -> ErrorResult(JStr(<<"Weather API request timed out">>))
      [] net.kind = "connection" ->
            ErrorResult(JStr(<<"Connection error. Please check your internet connection. Details: ",
                               "connection refused">>))
      [] net.kind = "http" -> ErrorResult(HttpErrorReason(location, net))
      [] net.kind = "other" -> ErrorResult(JStr(<<"Weather API error: ", "request failed">>))

get_current_weather(location, net) ==
    IF ~Truthy(location)
    THEN ErrorResult(JStr(<<"Location is required">>))
    ELSE Fetch(location, net)

Min(a, b) == IF a < b THEN a ELSE b
Max(a, b) == IF a > b THEN a ELSE b

\* chat_agent.py 202: parameters.get("days", 5)
DefaultDays == 5
\* weather_agent.py 73: def get_forecast(self, location, days=5)
ForecastDefaultDays == 5
MaxDays == 10

\* weather_agent.py 79: days = max(1, min(days, 10))
ClampDays(d) == Max(1, Min(d, MaxDays))

get_forecast(location, d, net) ==
    IF ~Truthy(location)
    THEN ErrorResult(JStr(<<"Location is required">>))
    ELSE Fetch(location, net)

\* the request a call of the WeatherAgent puts on the wire, and the value of
\* get_forecast's local days while it does (0 for the realtime endpoint)
NoRequest == [endpoint |-> "none", location |-> JNull, days |-> 0]
RealtimeRequest(location) ==
    [endpoint |-> "realtime", location |-> location, days |-> 0]
ForecastRequest(location, d) ==
    [endpoint |-> "forecast", location |-> location, days |-> ClampDays(d)]

(***************************************************************************)
(* ChatAgent.get_response: the texts it builds                             *)
(***************************************************************************)
\* A return value or an exception that leaves get_response
Return(v) == [raised |-> FALSE, val |-> v]
Raise == [raised |-> TRUE, val |-> JNull]

CurrentPrompt == JStr(<<"Please specify a location to get the current weather.">>)
ForecastPrompt == JStr(<<"Please specify a location to get the weather forecast.">>)

\* chat_agent.py 115
CurrentErrorText(location, weather_data) ==
    JStr(<<"Sorry, I couldn't get the weather information for ">> \o Fmt(location)
         \o <<". Error: ">> \o Fmt(weather_data.o["error"]))

\* chat_agent.py 209
ForecastErrorText(location, forecast_data) ==
    JStr(<<"Sorry, I couldn't get the forecast for ">> \o Fmt(location)
         \o <<". Error: ">> \o Fmt(forecast_data.o["error"]))

\* GeneralApology that drops the error detail
GeneralApologyNoDetail(err) ==
    JStr(<<"Sorry, I'm having trouble processing your request right now.">>)

\* chat_agent.py 343
GeneralApology(err) ==
    JStr(<<"Sorry, I'm having trouble processing your request right now. Error: ">>
         \o err)

\* x is not None
NotNone(v) == v.t # "null"

\* CurrentSummary that prints the humidity line without testing for None
CurrentSummaryAlwaysHumidity(loc_name, values) ==
    LET temp == Get(values, "temperature", JNull)
        apparent_temp == Get(values, "temperatureApparent", JNull)
        humidity == Get(values, "humidity", JNull)
        wind_speed == Get(values, "windSpeed", JNull)
        wind_direction == Get(values, "windDirection", JNull)
        visibility == Get(values, "visibility", JNull)
        direction == IF NotNone(wind_direction)
                     THEN <<" from ">> \o Fmt(wind_direction) \o <<"deg">>
                     ELSE <<>>
    IN <<"Current weather in ">> \o Fmt(loc_name) \o <<":", "\n", "\n">>
       \o (IF NotNone(temp)
           THEN <<"Temperature: ">> \o Fmt(temp) \o <<"C">>
                \o (IF NotNone(apparent_temp)
                    THEN <<" (Feels like ">> \o Fmt(apparent_temp) \o <<"C)", "\n">>
                    ELSE <<"\n">>)
           ELSE <<>>)
       \o <<"Humidity: ">> \o Fmt(humidity) \o <<"%", "\n">>
       \o (IF NotNone(wind_speed)
           THEN <<"Wind: ">> \o Fmt(wind_speed) \o <<" m/s">> \o direction \o <<"\n">>
           ELSE <<>>)
       \o (IF NotNone(visibility)
           THEN <<"Visibility: ">> \o Fmt(visibility) \o <<" km", "\n">>
           ELSE <<>>)

\* chat_agent.py 179-192: the templated summary
CurrentSummary(loc_name, values) ==
    LET temp == Get(values, "temperature", JNull)
        apparent_temp == Get(values, "temperatureApparent", JNull)
        humidity == Get(values, "humidity", JNull)
        wind_speed == Get(values, "windSpeed", JNull)
        wind_direction == Get(values, "windDirection", JNull)
        visibility == Get(values, "visibility", JNull)
        direction == IF NotNone(wind_direction)
                     THEN <<" from ">> \o Fmt(wind_direction) \o <<"deg">>
                     ELSE <<>>
    IN <<"Current weather in ">> \o Fmt(loc_name) \o <<":", "\n", "\n">>
       \o (IF NotNone(temp)
           THEN <<"Temperature: ">> \o Fmt(temp) \o <<"C">>
                \o (IF NotNone(apparent_temp)
                    THEN <<" (Feels like ">> \o Fmt(apparent_temp) \o <<"C)", "\n">>
                    ELSE <<"\n">>)
           ELSE <<>>)
       \o (IF NotNone(humidity)
           THEN <<"Humidity: ">> \o Fmt(humidity) \o <<"%", "\n">>
           ELSE <<>>)
       \o (IF NotNone(wind_speed)
           THEN <<"Wind: ">> \o Fmt(wind_speed) \o <<" m/s">> \o direction \o <<"\n">>
           ELSE <<>>)
       \o (IF NotNone(visibility)
           THEN <<"Visibility: ">> \o Fmt(visibility) \o <<" km", "\n">>
           ELSE <<>>)

UnableCurrent == JStr(<<"Unable to extract weather information.">>)
UnableForecast == JStr(<<"Unable to extract forecast information.">>)

\* chat_agent.py 160-196: the fallback when the narration call raised.
\* .get on a value that is not a dict raises AttributeError, which the
\* handler at line 195 (KeyError, IndexError, TypeError) does not catch.
CurrentFallback(weather_data, location) ==
    IF ~IsDict(weather_data) THEN Raise
    ELSE LET data == Get(weather_data, "data", JObj(EmptyMap))
             values == IF IsDict(data) THEN Get(data, "values", JObj(EmptyMap))
                       ELSE JObj(EmptyMap)
             location_info == Get(weather_data, "location", JObj(EmptyMap))
             loc_name == IF IsDict(location_info)
                         THEN Get(location_info, "name", location)
                         ELSE location
         IN IF ~IsDict(values) THEN Raise
            ELSE LET response_text == JStr(CurrentSummary(loc_name, values))
                 IN Return(PyOr(response_text, UnableCurrent))

\* forecast_entries[:10]
MaxEntries == 10

\* chat_agent.py 282-306: one entry of the timeline
EntryText(entry) ==
    LET time == Get(entry, "time", JStr(<<"N/A">>))
        values == Get(entry, "values", JObj(EmptyMap))
        temp == Get(values, "temperature", JNull)
        apparent_temp == Get(values, "temperatureApparent", JNull)
        humidity == Get(values, "humidity", JNull)
        wind_speed == Get(values, "windSpeed", JNull)
        precipitation_prob == Get(values, "precipitationProbability", JNull)
    IN <<"@ ">> \o Fmt(time) \o <<":", "\n">>
       \o (IF NotNone(temp)
           THEN <<"   ">> \o Fmt(temp) \o <<"C">>
                \o (IF NotNone(apparent_temp)
                    THEN <<" (Feels like ">> \o Fmt(apparent_temp) \o <<"C)">>
                    ELSE <<>>)
                \o <<"\n">>
           ELSE <<>>)
       \o (IF NotNone(humidity)
           THEN <<"   Humidity: ">> \o Fmt(humidity) \o <<"%", "\n">>
           ELSE <<>>)
       \o (IF NotNone(precipitation_prob)
           THEN <<"   Precipitation: ">> \o Fmt(precipitation_prob) \o <<"%", "\n">>
           ELSE <<>>)
       \o (IF NotNone(wind_speed)
           THEN <<"   Wind: ">> \o Fmt(wind_speed) \o <<" m/s", "\n">>
           ELSE <<>>)
       \o <<"\n">>

\* an entry whose "values" is not a dict makes values.get raise
EntryRaises(entry) ==
    IsDict(entry) /\ ~IsDict(Get(entry, "values", JObj(EmptyMap)))

\* chat_agent.py 281-306: the loop over the entries, left to right
RECURSIVE EntriesText(_)
EntriesText(entries) ==
    IF entries = <<>> THEN <<>>
    ELSE (IF IsDict(Head(entries)) THEN EntryText(Head(entries)) ELSE <<>>)
         \o EntriesText(Tail(entries))

\* forecast_entries[:10]
FirstEntries(entries) == SubSeq(entries, 1, Min(Len(entries), MaxEntries))

\* chat_agent.py 270-275: minutely first, then hourly, then daily
SelectTimeline(timelines) ==
    IF "minutely" \in DOMAIN timelines.o /\ IsList(timelines.o["minutely"])
    THEN timelines.o["minutely"].l
    ELSE IF "hourly" \in DOMAIN timelines.o /\ IsList(timelines.o["hourly"])
    THEN timelines.o["hourly"].l
    ELSE IF "daily" \in DOMAIN timelines.o /\ IsList(timelines.o["daily"])
    THEN timelines.o["daily"].l
    ELSE <<>>

\* chat_agent.py 258-312
ForecastFallback(forecast_data, location) ==
    IF ~IsDict(forecast_data) THEN Raise
    ELSE LET timelines == Get(forecast_data, "timelines", JObj(EmptyMap))
             location_info == Get(forecast_data, "location", JObj(EmptyMap))
             loc_name == IF IsDict(location_info)
                         THEN Get(location_info, "name", location)
                         ELSE location
         IN IF Truthy(timelines) /\ IsDict(timelines)
            THEN LET forecast_entries == SelectTimeline(timelines)
                     shown == FirstEntries(forecast_entries)
                 IN IF forecast_entries # <<>>
                    THEN IF \E i \in 1..Len(shown) : EntryRaises(shown[i])
                         THEN Raise
                         ELSE Return(JStr(<<"Weather forecast for ">> \o Fmt(loc_name)
                                          \o <<":", "\n", "\n">> \o EntriesText(shown)))
                    ELSE Return(UnableForecast)
            ELSE Return(UnableForecast)

(***************************************************************************)
(* core/app.py: rendering of a response                                    *)
(***************************************************************************)
\* formatter.py 10-28: "{temp:.1f}" raises TypeError when temp is not a number
format_current_weather_md(data) ==
    IF Get(data, "temp", JNull).t # "int" THEN Raise
    ELSE Return(JStr(<<"**">> \o Fmt(Get(data, "city", JNull)) \o <<"**", "\n",
                       "**Temperature:** ">> \o Fmt(Get(data, "temp", JNull))
                     \o <<"\n", "**Humidity:** ">> \o Fmt(Get(data, "humidity", JNull))
                     \o <<"%", "\n", "**Wind:** ">> \o Fmt(Get(data, "wind_speed", JNull))
                     \o <<" m/s", "\n">>))

\* formatter.py 31-61, called as at app.py 293 (a missing key raises KeyError)
format_forecast_markdown(data) ==
    IF ~({"city", "units", "list", "days"} \subseteq DOMAIN data.o) THEN Raise
    ELSE IF ~IsList(data.o["list"]) THEN Raise
    ELSE IF data.o["list"].l = <<>> THEN Return(JStr(<<"No forecast available.">>))
    ELSE Return(JStr(<<"**">> \o Fmt(data.o["days"]) \o <<"-day forecast for ">>
                     \o Fmt(data.o["city"]) \o <<"**", "\n", "\n">>))

\* RenderedContent that stores a non-dict response as it came
RenderedContentRaw(resp) ==
    IF IsDict(resp)
    THEN IF Get(resp, "type", JNull) = JStr(<<"current">>)
         THEN format_current_weather_md(resp)
         ELSE IF Get(resp, "type", JNull) = JStr(<<"forecast">>)
         THEN format_forecast_markdown(resp)
         ELSE Return(JStr(<<>>))
    ELSE Return(resp)

\* app.py 278-301 and 305-314: the text stored for a response
RenderedContent(resp) ==
    IF IsDict(resp)
    THEN IF Get(resp, "type", JNull) = JStr(<<"current">>)
         THEN format_current_weather_md(resp)
         ELSE IF Get(resp, "type", JNull) = JStr(<<"forecast">>)
         THEN format_forecast_markdown(resp)
         ELSE Return(JStr(<<>>))
    ELSE Return(JStr(Fmt(resp)))

Msg(role, content) == [role |-> role, content |-> content]

(***************************************************************************)
(* Inputs                                                                  *)
(***************************************************************************)
Queries == { <<"What's the weather in Paris?">> }

RECURSIVE Join(_, _)
Join(parts, sep) ==
    IF parts = <<>> THEN <<>>
    ELSE IF Len(parts) = 1 THEN parts[1]
    ELSE parts[1] \o <<sep>> \o Join(Tail(parts), sep)

ObjText(members) == <<"{">> \o Join(members, ",") \o <<"}">>

ActionLex ==
    { "\"action\":\"current_weather\"", "\"action\":\"forecast\"",
      "\"action\":\"general\"", "\"action\":\"smalltalk\"" }

CityParis == <<"\"city\":\"Paris\"">>

ParamVariants ==
    { <<>>,
      <<CityParis>>,
      << <<"\"location\":\"Oslo\"">> >>,
      << <<"\"city\":\"\"">> >>,
      << <<"\"city\":\" \"">> >>,
      << <<"\"city\":null">> >>,
      << <<"\"location\":\"\"">>, CityParis >>,
      << <<"\"location\":\"Oslo\"">>, CityParis >>,
      << CityParis, <<"\"days\":0">> >>,
      << CityParis, <<"\"days\":3">> >>,
      << CityParis, <<"\"days\":12">> >>,
      << <<"\"days\":3">> >> }

DescriptorTexts ==
    { ObjText(<< <<a>>, <<"\"parameters\":">> \o ObjText(p) >>) :
        a \in ActionLex, p \in ParamVariants }
    \cup { ObjText(<< <<a>> >>) : a \in ActionLex }
    \cup { ObjText(<< <<a>>, <<"\"parameters\":", "null">> >>) : a \in ActionLex }
    \cup { ObjText(<< <<a>>, <<"\"parameters\":", "42">> >>) : a \in ActionLex }

OtherTexts ==
    { <<>>, <<"[]">>, <<"42">>, <<"null">>, <<"\"hello\"">>, <<"{", "}">>,
      ObjText(<<CityParis>>),
      <<"I think the user wants the weather.">>,
      <<"{">>,
      <<"{", "\"action\":\"forecast\"", ",", "}">>,
      <<"{", "\n", " ", "\"action\":\"forecast\"", "\n", "}">>,
      ObjText(<< <<"\"parameters\":">> \o ObjText(<<CityParis>>),
                 <<"\"action\":\"current_weather\"">> >>) }

\* a classifier text inside a fenced code block
WrapOpen ==
    { Fence \o <<"\n">>, Fence \o JsonTag \o <<"\n">>, Fence, Fence \o JsonTag,
      Fence \o <<"python", "\n">> }
WrapClose == { <<"\n">> \o Fence, Fence }

Wrap(open, txt, close) == open \o txt \o close

Prefixes ==
    { <<>>, <<" ">>, <<"Here is the JSON:", "\n">>, JsonTag \o <<" ">>,
      Fence, <<BQ>>, <<"}">> }
Suffixes == { <<>>, <<"\n">>, <<"\n", "Hope this helps!">>, Fence, <<"{">> }

CoreTexts ==
    { ObjText(<< <<"\"action\":\"current_weather\"">>,
                 <<"\"parameters\":">> \o ObjText(<<CityParis>>) >>),
      ObjText(<< <<"\"action\":\"general\"">> >>),
      <<"42">>, <<"\"hello\"">>, <<"{", "}">>, <<"[]">> }

BaseTexts ==
    DescriptorTexts \cup OtherTexts
    \cup { pre \o core \o suf : pre \in Prefixes, core \in CoreTexts, suf \in Suffixes }

AllTexts ==
    BaseTexts
    \cup { Wrap(open, txt, close) : open \in WrapOpen, txt \in BaseTexts, close \in WrapClose }

LlmErrors == { <<"503 UNAVAILABLE">> }

\* every outcome of the classification call
AllClassifierReplies ==
    { LlmText(txt) : txt \in AllTexts }
    \cup { LlmNoneText, LlmNoTextAttr } \cup { LlmFail(e) : e \in LlmErrors }
    \cup { LlmStr(txt) : txt \in CoreTexts }

\* the outcomes the session specification draws from
SessionClassifierReplies ==
    { LlmText(txt) :
        txt \in { ObjText(<< <<"\"action\":\"current_weather\"">>,
                             <<"\"parameters\":">> \o ObjText(<<CityParis>>) >>),
                  ObjText(<< <<"\"action\":\"current_weather\"">>,
                             <<"\"parameters\":">> \o ObjText(<<>>) >>),
                  ObjText(<< <<"\"action\":\"forecast\"">>,
                             <<"\"parameters\":">>
                             \o ObjText(<< CityParis, <<"\"days\":3">> >>) >>),
                  ObjText(<< <<"\"action\":\"general\"">>,
                             <<"\"parameters\":">> \o ObjText(<<>>) >>),
                  ObjText(<< <<"\"action\":\"forecast\"">>,
                             <<"\"parameters\":">>
                             \o ObjText(<< <<"\"city\":\" \"">> >>) >>),
                  ObjText(<< <<"\"action\":\"current_weather\"">>,
                             <<"\"parameters\":", "null">> >>),
                  Fence \o JsonTag \o <<"\n">>
                  \o ObjText(<< <<"\"action\":\"smalltalk\"">> >>) \o <<"\n">> \o Fence,
                  <<"[]">> } }
    \cup { LlmNoneText } \cup { LlmFail(e) : e \in LlmErrors }

\* every outcome of a narration / general call
AllComposeReplies ==
    { LlmText(<<"It is sunny and mild.">>), LlmNoneText, LlmNoTextAttr }
    \cup { LlmFail(e) : e \in LlmErrors }

SessionComposeReplies ==
    { LlmText(<<"It is sunny and mild.">>), LlmNoneText, LlmNoTextAttr }
    \cup { LlmFail(e) : e \in LlmErrors }

(***************************************************************************)
(* Provider payloads and HTTP outcomes                                     *)
(***************************************************************************)
AllFields ==
    { "temperature", "temperatureApparent", "humidity", "windSpeed",
      "windDirection", "visibility" }

FieldValue(f) ==
    CASE f = "temperature" -> 18
      [] f = "temperatureApparent" -> 17
      [] f = "humidity" -> 60
      [] f = "windSpeed" -> 3
      [] f = "windDirection" -> 270
      [] f = "visibility" -> 10

ValuesOf(S) == JObj([f \in S |-> JInt(FieldValue(f))])

ProviderName == JStr(<<"Paris, France">>)

\* a realtime payload: {"data": {"time": .., "values": {..}}, "location": {..}}
CurrentPayload(S, named) ==
    JObj(Map2("data",
              JObj(Map2("time", JStr(<<"2024-01-01T12:00:00Z">>), "values", ValuesOf(S))),
              "location",
              IF named THEN JObj(Map2("lat", JInt(48), "name", ProviderName))
              ELSE JObj(Map1("lat", JInt(48)))))

FieldSets ==
    { AllFields, {} } \cup { AllFields \ {f} : f \in AllFields }
    \cup { {f} : f \in AllFields }

WellFormedCurrent ==
    { CurrentPayload(S, TRUE) : S \in FieldSets }
    \cup { CurrentPayload(AllFields, FALSE) }

OddPayloads ==
    { JList(<<>>), JNull, JObj(EmptyMap),
      JObj(Map1("data", JObj(Map1("values", JNull)))),
      JObj(Map1("data", JList(<<>>))) }

\* one entry of a forecast timeline
TimelineEntry(i) ==
    JObj(Map2("time", JStr(<<"T", ToString(i)>>),
              "values", JObj(Map2("temperature", JInt(i),
                                  "precipitationProbability", JInt(10 * i)))))

Entries(lo, hi) == JList([i \in 1..(hi - lo + 1) |-> TimelineEntry(lo + i - 1)])

ForecastPayload(timelines) ==
    JObj(Map2("timelines", timelines, "location", JObj(Map1("name", ProviderName))))

Timelines3 ==
    JObj(Put(Map2("minutely", Entries(1, 2), "hourly", Entries(21, 21)),
             "daily", Entries(31, 31)))

ForecastPayloads ==
    { ForecastPayload(Timelines3),
      ForecastPayload(JObj(Map2("hourly", Entries(21, 22), "daily", Entries(31, 31)))),
      ForecastPayload(JObj(Map1("daily", Entries(31, 32)))),
      ForecastPayload(JObj(Map1("daily", Entries(31, 31 + MaxEntries)))),
      ForecastPayload(JObj(Map2("minutely", JList(<<>>), "hourly", Entries(21, 21)))),
      ForecastPayload(JObj(Map2("minutely", JNull, "hourly", Entries(21, 21)))),
      ForecastPayload(JObj(Map1("daily", JList(<<>>)))),
      ForecastPayload(JObj(EmptyMap)),
      ForecastPayload(JNull),
      JObj(Map1("location", JObj(Map1("lat", JInt(48))))),
      ForecastPayload(JObj(Map1("hourly",
          JList(<<JObj(Map2("time", JStr(<<"T", "21">>), "values", JNull))>>)))),
      ForecastPayload(JObj(Map1("hourly", JList(<<JInt(7), TimelineEntry(22)>>)))) }

HttpFailures ==
    { HttpTimeout, HttpConnection, HttpOther,
      HttpError(404, JNull, FALSE),
      HttpError(401, JObj(Map1("message", JStr(<<"The method requires authentication">>))),
                TRUE),
      HttpError(401, JNull, FALSE),
      HttpError(401, JObj(Map1("code", JInt(401001))), TRUE),
      HttpError(400, JNull, FALSE),
      HttpError(500, JNull, FALSE) }

AllCurrentOutcomes ==
    HttpFailures \cup { HttpOk(b) : b \in WellFormedCurrent \cup OddPayloads }

AllForecastOutcomes ==
    HttpFailures \cup { HttpOk(b) : b \in ForecastPayloads \cup OddPayloads }

SessionCurrentOutcomes ==
    { HttpTimeout, HttpError(404, JNull, FALSE),
      HttpError(401, JObj(Map1("message", JStr(<<"The method requires authentication">>))),
                TRUE),
      HttpOk(CurrentPayload(AllFields, TRUE)),
      HttpOk(CurrentPayload({"temperature"}, FALSE)),
      HttpOk(JList(<<>>)) }

SessionForecastOutcomes ==
    { HttpError(404, JNull, FALSE), HttpOther,
      HttpOk(ForecastPayload(Timelines3)),
      HttpOk(ForecastPayload(JObj(Map2("minutely", JList(<<>>), "hourly", Entries(21, 21))))) }

(***************************************************************************)
(* State                                                                   *)
(***************************************************************************)
VARIABLES
    messages,        \* st.session_state.messages
    pc,              \* where the script run of app.py main() stands
    turns,           \* user turns taken so far
    user_query,      \* prompt of the current turn
    classify_reply,  \* outcome of the classification LLM call
    action_data,     \* what process_query returned
    action,          \* get_response: action
    location,        \* get_response: location
    days,            \* get_response: days
    request,         \* the weather request of this turn
    weather_data,    \* get_response: weather_data / forecast_data
    compose_reply,   \* outcome of the narration / general LLM call
    response,        \* what get_response returned
    calls,           \* network calls issued in this turn
    http_reply,      \* what the provider answered to the WeatherAgent
    context,         \* get_response: context, built from the history
    GEMINI_API_KEY,  \* app.py 19
    WEATHER_API_KEY, \* app.py 20
    TOMORROW_API_KEY \* chat_agent.py 14

vars ==
    <<messages, pc, turns, user_query, classify_reply, action_data, action,
      location, days, request, weather_data, compose_reply, response, calls,
      http_reply, context, GEMINI_API_KEY, WEATHER_API_KEY, TOMORROW_API_KEY>>

\* the environment is read once, when the modules are imported
Env == <<GEMINI_API_KEY, WEATHER_API_KEY, TOMORROW_API_KEY>>

\* os.getenv: None when the variable is not set, else its value
KeyValues == { JNull, JStr(<<>>), JStr(<<"k3y">>) }

NoHttp == [kind |-> "nocall", status |-> 0, body |-> JNull, bodyOk |-> FALSE]
NoContext == <<>>

NoReply == [kind |-> "nocall", text |-> <<>>, err |-> <<>>]
NoCalls == [classify |-> 0, weather |-> 0, compose |-> 0]

CurrentWeather == JStr(<<"current_weather">>)
Forecast == JStr(<<"forecast">>)

Init ==
    /\ messages = <<>>
    /\ pc = "start"
    /\ GEMINI_API_KEY \in KeyValues
    /\ WEATHER_API_KEY \in KeyValues
    /\ TOMORROW_API_KEY \in KeyValues
    /\ http_reply = NoHttp
    /\ context = NoContext
    /\ turns = 0
    /\ user_query = <<>>
    /\ classify_reply = NoReply
    /\ action_data = JNull
    /\ action = JNull
    /\ location = JNull
    /\ days = JNull
    /\ request = NoRequest
    /\ weather_data = JNull
    /\ compose_reply = NoReply
    /\ response = JNull
    /\ calls = NoCalls

\* the locals of a script run are gone once it ends
ForgetLocals ==
    /\ user_query' = <<>>
    /\ classify_reply' = NoReply
    /\ action_data' = JNull
    /\ action' = JNull
    /\ location' = JNull
    /\ days' = JNull
    /\ request' = NoRequest
    /\ weather_data' = JNull
    /\ compose_reply' = NoReply
    /\ response' = JNull
    /\ calls' = NoCalls
    /\ http_reply' = NoHttp
    /\ context' = NoContext

(***************************************************************************)
(* Actions                                                                 *)
(***************************************************************************)
\* app.py 23-38, 44-47, 256-257: initialize_app stops the script unless
\* GEMINI_API_KEY and WEATHER_API_KEY are set and the client is built;
\* otherwise main builds the ChatAgent and the empty history.  Every script
\* run repeats the check on the same module constants.
initialize_app ==
    /\ pc = "start"
    /\ \E built \in BOOLEAN :
          pc' = IF ~Truthy(GEMINI_API_KEY) \/ ~Truthy(WEATHER_API_KEY) \/ ~built
                THEN "stopped"
                ELSE "idle"
    /\ UNCHANGED <<messages, turns, user_query, classify_reply, action_data, action,
                   location, days, request, weather_data, compose_reply, response,
                   calls, http_reply, context, Env>>

\* chat_agent.py 118-119, 212-213, 318-319: the context lines of a prompt,
\* built from the last k messages of the history
ContextOf(chat_history, k) ==
    LET n == Len(chat_history)
        last == SubSeq(chat_history, Max(1, n - k + 1), n)
    IN Join([i \in 1..Len(last) |->
                (IF last[i].role = "user" THEN <<"User: ">> ELSE <<"Assistant: ">>)
                \o Fmt(last[i].content)],
            "\n")

\* app.py 265-277: the user submits a prompt
ChatInputFrom(limit) ==
    /\ pc = "idle"
    /\ turns < limit
    /\ \E q \in Queries :
          /\ messages' = Append(messages, Msg("user", JStr(q)))
          /\ user_query' = q
    /\ turns' = turns + 1
    /\ pc' = "classify"
    /\ UNCHANGED <<classify_reply, action_data, action, location, days, request,
                   weather_data, compose_reply, response, calls, http_reply,
                   context, Env>>

\* ProcessQueryFrom that records the query in the history it was given
ProcessQueryFromAppending(replies) ==
    /\ pc = "classify"
    /\ \E r \in replies :
          /\ classify_reply' = r
          /\ action_data' = process_query(r)
    /\ messages' = Append(messages, Msg("user", JStr(user_query)))
    /\ calls' = [calls EXCEPT !.classify = @ + 1]
    /\ pc' = "dispatch"
    /\ UNCHANGED <<turns, user_query, action, location, days, request,
                   weather_data, compose_reply, response, http_reply, context, Env>>

\* chat_agent.py 103, 55-98: get_response calls process_query
ProcessQueryFrom(replies) ==
    /\ pc = "classify"
    /\ \E r \in replies :
          /\ classify_reply' = r
          /\ action_data' = process_query(r)
    /\ calls' = [calls EXCEPT !.classify = @ + 1]
    /\ pc' = "dispatch"
    /\ UNCHANGED <<messages, turns, user_query, action, location, days, request,
                   weather_data, compose_reply, response, http_reply, context, Env>>

\* chat_agent.py 104-109, 197-203, 313-316: choice of the branch.
\* action_data.get and parameters.get raise AttributeError on a non-dict.
Dispatch ==
    /\ pc = "dispatch"
    /\ IF ~IsDict(action_data)
       THEN /\ pc' = "raised"
            /\ UNCHANGED <<action, location, days, response>>
       ELSE LET act == Get(action_data, "action", JStr(<<"general">>))
                parameters == Get(action_data, "parameters", JObj(EmptyMap))
            IN /\ action' = act
               /\ IF act \in {CurrentWeather, Forecast}
                  THEN IF ~IsDict(parameters)
                       THEN /\ pc' = "raised"
                            /\ UNCHANGED <<location, days, response>>
                       ELSE LET loc == PyOr(Get(parameters, "location", JNull),
                                            Get(parameters, "city", JNull))
                            IN /\ location' = loc
                               /\ days' = IF act = Forecast
                                          THEN Get(parameters, "days", JInt(DefaultDays))
                                          ELSE days
                               /\ IF Truthy(loc)
                                  THEN /\ pc' = "weather"
                                       /\ UNCHANGED response
                                  ELSE /\ pc' = "returned"
                                       /\ response' = IF act = CurrentWeather
                                                      THEN CurrentPrompt
                                                      ELSE ForecastPrompt
                  ELSE /\ pc' = "compose"
                       /\ UNCHANGED <<location, days, response>>
    /\ UNCHANGED <<messages, turns, user_query, classify_reply, action_data, request,
                   weather_data, compose_reply, calls, http_reply, context, Env>>

\* the request that get_response's call of the WeatherAgent sends
\* (chat_agent.py 111 and 205: get_forecast is called without days)
RequestOf(act, loc, d) ==
    IF act = CurrentWeather THEN RealtimeRequest(loc)
    ELSE ForecastRequest(loc, ForecastDefaultDays)

\* AfterWeather without the error check: an error result is narrated
AfterWeatherUnchecked(act, loc, data) ==
    IF InRaises(data)
    THEN [pc |-> "raised", response |-> JNull]
    ELSE [pc |-> "compose", response |-> JNull]

\* AfterWeather that asks the provider again after an error result
AfterWeatherRetrying(act, loc, data) ==
    IF InRaises(data)
    THEN [pc |-> "raised", response |-> JNull]
    ELSE IF In("error", data)
    THEN [pc |-> "weather", response |-> JNull]
    ELSE [pc |-> "compose", response |-> JNull]

\* chat_agent.py 113-116, 207-210: what get_response does with the result of
\* the WeatherAgent: "error" in data raises TypeError on a number or None,
\* and data["error"] raises TypeError on a list or a string
AfterWeather(act, loc, data) ==
    IF InRaises(data) \/ (In("error", data) /\ ~IsDict(data))
    THEN [pc |-> "raised", response |-> JNull]
    ELSE IF In("error", data)
    THEN [pc |-> "returned",
          response |-> IF act = CurrentWeather
                       THEN CurrentErrorText(loc, data)
                       ELSE ForecastErrorText(loc, data)]
    ELSE [pc |-> "compose", response |-> JNull]

\* chat_agent.py 111-115, 205-209: the WeatherAgent call and the error check
WeatherCallFrom(currentOutcomes, forecastOutcomes) ==
    /\ pc = "weather"
    /\ \E net \in (IF action = CurrentWeather THEN currentOutcomes ELSE forecastOutcomes) :
          \* weather_agent.py 31, 84: the key is sent as apikey; the provider
          \* gives no data to a request without one
          /\ net.kind = "ok" => Truthy(TOMORROW_API_KEY)
          /\ LET data == IF action = CurrentWeather
                         THEN get_current_weather(location, net)
                         ELSE get_forecast(location, ForecastDefaultDays, net)
                 after == AfterWeather(action, location, data)
             IN /\ http_reply' = net
                /\ weather_data' = data
                /\ pc' = after.pc
                /\ response' = after.response
    /\ request' = RequestOf(action, location, days)
    /\ calls' = [calls EXCEPT !.weather = @ + 1]
    /\ UNCHANGED <<messages, turns, user_query, classify_reply, action_data, action,
                   location, days, compose_reply, context, Env>>

\* what get_response does with the outcome of its narration / general call
\* (chat_agent.py 144-196, 242-312, 331-343)
Composed(act, loc, data, r) ==
    CASE r.kind = "text" -> Return(JStr(r.text))
      [] r.kind = "none" -> Return(JNull)
      [] r.kind = "notext" -> Return(JStr(r.text))
      [] r.kind = "fail" ->
            IF act = CurrentWeather THEN CurrentFallback(data, loc)
            ELSE IF act = Forecast THEN ForecastFallback(data, loc)
            ELSE Return(GeneralApology(r.err))

WeatherContext == 3
GeneralContext == 5

ContextLength(act) ==
    IF act \in {CurrentWeather, Forecast} THEN WeatherContext ELSE GeneralContext

ComposeFrom(replies) ==
    /\ pc = "compose"
    /\ \E r \in replies :
          /\ compose_reply' = r
          /\ LET out == Composed(action, location, weather_data, r)
             IN IF out.raised
                THEN /\ pc' = "raised"
                     /\ UNCHANGED response
                ELSE /\ pc' = "returned"
                     /\ response' = out.val
    /\ context' = ContextOf(messages, ContextLength(action))
    /\ calls' = [calls EXCEPT !.compose = @ + 1]
    /\ UNCHANGED <<messages, turns, user_query, classify_reply, action_data, action,
                   location, days, request, weather_data, http_reply, Env>>

\* app.py 278-314: render the response and append it to the history
Render ==
    /\ pc = "returned"
    /\ LET md == RenderedContent(response)
       IN IF md.raised
          THEN messages' = messages
          ELSE messages' = Append(messages, Msg("assistant", md.val))
    /\ pc' = "idle"
    /\ ForgetLocals
    /\ UNCHANGED <<turns, Env>>

\* app.py 277: an exception leaves get_response; the script run ends and
\* the session state stays as it is
ScriptAbort ==
    /\ pc = "raised"
    /\ pc' = "idle"
    /\ ForgetLocals
    /\ UNCHANGED <<messages, turns, Env>>

ChatInput == ChatInputFrom(MaxTurns)
ProcessQuery == ProcessQueryFrom(SessionClassifierReplies)
WeatherCall == WeatherCallFrom(SessionCurrentOutcomes, SessionForecastOutcomes)
Compose == ComposeFrom(SessionComposeReplies)

\* a chat session of up to MaxTurns turns
Next ==
    \/ initialize_app
    \/ ChatInput
    \/ ProcessQuery
    \/ Dispatch
    \/ WeatherCall
    \/ Compose
    \/ Render
    \/ ScriptAbort

Spec == Init /\ [][Next]_vars

FirstInput == ChatInputFrom(1)
ProcessAnyReply == ProcessQueryFrom(AllClassifierReplies)
WeatherAnyOutcome == WeatherCallFrom(AllCurrentOutcomes, AllForecastOutcomes)
ComposeAnyReply == ComposeFrom(AllComposeReplies)

\* one turn, over every classifier reply, provider outcome and LLM outcome
NextTurn ==
    \/ initialize_app
    \/ FirstInput
    \/ ProcessAnyReply
    \/ Dispatch
    \/ WeatherAnyOutcome
    \/ ComposeAnyReply
    \/ Render
    \/ ScriptAbort

SpecTurn == Init /\ [][NextTurn]_vars

(***************************************************************************)
(* Properties                                                              *)
(***************************************************************************)
InWeatherBranch == action \in {CurrentWeather, Forecast}

\* a parameter value that is missing, None, empty or whitespace-only
Blank(v) == v.t = "null" \/ (v.t = "str" /\ strip(v.s) = <<>>)

\* the descriptor carries no location under either parameter name
BlankLocation(ad) ==
    /\ IsDict(ad)
    /\ IsDict(Get(ad, "parameters", JObj(EmptyMap)))
    /\ Blank(Get(Get(ad, "parameters", JObj(EmptyMap)), "location", JNull))
    /\ Blank(Get(Get(ad, "parameters", JObj(EmptyMap)), "city", JNull))

\* C1: for a current_weather or forecast descriptor whose location is
\* missing, empty or whitespace-only, get_response returns the fixed
\* prompt-for-location string and the weather provider is not called.
C1_BlankLocationPrompts ==
    (pc \in {"weather", "compose", "returned", "raised"} /\ InWeatherBranch
        /\ BlankLocation(action_data))
    => /\ pc = "returned"
       /\ response = (IF action = CurrentWeather THEN CurrentPrompt ELSE ForecastPrompt)
       /\ calls.weather = 0
       /\ request = NoRequest

\* an object with an action field and a parameters mapping
RequiredStructure(v) ==
    /\ IsDict(v)
    /\ {"action", "parameters"} \subseteq DOMAIN v.o
    /\ IsDict(v.o["parameters"])

\* the classifier reply does not carry a text that parses to the structure
Unparseable(r) ==
    \/ r.kind # "text"
    \/ ~ParseClassifierText(r.text).ok
    \/ ~RequiredStructure(ParseClassifierText(r.text).val)

\* C2: when the classifier reply is not parseable as the required structure,
\* or the LLM call failed, process_query returns {action: general,
\* parameters: {}}.
C2_UnparseableGivesDefault ==
    (pc = "dispatch" /\ Unparseable(classify_reply)) => action_data = DefaultAction

\* C3: get_response always returns a string; no exception reaches the caller.
C3_AlwaysReturnsText ==
    /\ pc # "raised"
    /\ (pc = "returned" => response.t = "str")

IsErrorResult(data) == IsDict(data) /\ "error" \in DOMAIN data.o

\* C4: when the WeatherAgent returns an error result, get_response returns a
\* string that embeds the error reason verbatim and issues no narration LLM
\* request; a narration request is only issued after a non-error result.
C4_WeatherErrorEmbeddedNoNarration ==
    /\ (calls.weather > 0 /\ IsErrorResult(weather_data))
       => /\ pc = "returned"
          /\ response.t = "str"
          /\ ContainsText(response.s, Fmt(weather_data.o["error"]))
          /\ calls.compose = 0
          /\ compose_reply = NoReply
    /\ (InWeatherBranch /\ calls.compose > 0)
       => (calls.weather = 1 /\ ~IsErrorResult(weather_data))

\* C4 witness: a forecast turn ended on the provider's 404
C4_Witness ==
    /\ pc = "returned"
    /\ action = Forecast
    /\ request.endpoint = "forecast"
    /\ weather_data =
          ErrorResult(JStr(<<"Location '", "Paris",
                             "' not found. Please check the spelling.">>))
    /\ calls.compose = 0

\* the text inside a fenced block that starts with open and ends with close
IsWrapped(txt, open, close) ==
    /\ Len(txt) >= Len(open) + Len(close)
    /\ startswith(txt, open)
    /\ endswith(txt, close)
Inner(txt, open, close) == SubSeq(txt, Len(open) + 1, Len(txt) - Len(close))

\* C5: a classifier text that parses to an action descriptor parses to the
\* same descriptor when it is wrapped in a fenced code block, with or
\* without a language tag.
C5_FencedParsesAlike ==
    (pc = "dispatch" /\ classify_reply.kind = "text")
    => \A open \in WrapOpen, close \in WrapClose :
          IsWrapped(classify_reply.text, open, close)
          => LET unwrapped == ParseClassifierText(Inner(classify_reply.text, open, close))
             IN (unwrapped.ok /\ IsDict(unwrapped.val)) => action_data = unwrapped.val

ParisDescriptor ==
    JObj(Map2("action", CurrentWeather,
              "parameters", JObj(Map1("city", JStr(<<"Paris">>)))))

\* C5 witness: a descriptor inside a json-tagged fence, parsed
C5_Witness ==
    /\ pc = "dispatch"
    /\ classify_reply.kind = "text"
    /\ IsWrapped(classify_reply.text, Fence \o JsonTag, Fence)
    /\ ParseClassifierText(Inner(classify_reply.text, Fence \o JsonTag, Fence)).val
          = ParisDescriptor
    /\ action_data = ParisDescriptor

\* a realtime payload with data.values, and its values
HasValues(data) ==
    /\ IsDict(data)
    /\ IsDict(Get(data, "data", JNull))
    /\ IsDict(Get(data.o["data"], "values", JNull))
PayloadValues(data) == data.o["data"].o["values"].o

\* the name the payload gives the place, else the requested location
PlaceName(data, loc) ==
    IF IsDict(Get(data, "location", JNull)) /\ "name" \in DOMAIN data.o["location"].o
    THEN data.o["location"].o["name"]
    ELSE loc

\* C6: when the narration call fails for a current-weather request with a
\* well-formed payload, the response is the fallback text: it holds the
\* temperature value and the location name, a feels-like, humidity, wind or
\* visibility line only if the payload has that field, and no JSON structure.
C6_FallbackText ==
    (pc = "returned" /\ action = CurrentWeather /\ compose_reply.kind = "fail"
        /\ HasValues(weather_data))
    => /\ response.t = "str"
       /\ ("temperature" \in DOMAIN PayloadValues(weather_data)
           => ContainsText(response.s,
                 <<"Temperature: ">> \o Fmt(PayloadValues(weather_data)["temperature"])))
       /\ ContainsText(response.s, Fmt(PlaceName(weather_data, location)))
       /\ (Contains(response.s, " (Feels like ")
           => "temperatureApparent" \in DOMAIN PayloadValues(weather_data))
       /\ (Contains(response.s, "Humidity: ")
           => "humidity" \in DOMAIN PayloadValues(weather_data))
       /\ (Contains(response.s, "Wind: ")
           => "windSpeed" \in DOMAIN PayloadValues(weather_data))
       /\ (Contains(response.s, "Visibility: ")
           => "visibility" \in DOMAIN PayloadValues(weather_data))
       /\ \A i \in 1..Len(response.s) : response.s[i] \notin {"{", "}", "[", "]"}

\* C6 witness: the fallback for a payload that has no humidity
C6_Witness ==
    /\ pc = "returned"
    /\ action = CurrentWeather
    /\ compose_reply.kind = "fail"
    /\ weather_data = CurrentPayload(AllFields \ {"humidity"}, TRUE)
    /\ ContainsText(response.s, <<"Temperature: ", "18">>)
    /\ ContainsText(response.s, <<"Paris, France">>)
    /\ ~Contains(response.s, "Humidity: ")

\* the claimed range of the day count
ClaimedDays(d) == IF d < 1 THEN 1 ELSE IF d > 10 THEN 10 ELSE d

\* C7: the day count of the forecast request is the descriptor's days
\* parameter clamped into 1..10, or 5 when there is none.
C7_ForecastDaysFromDescriptor ==
    (request.endpoint = "forecast" /\ days.t = "int")
    => request.days = ClaimedDays(days.i)

\* C8: within one turn each network call (classification, weather provider,
\* narration/general) is issued at most once, whatever its outcome.
C8_NoRetry ==
    /\ calls.classify <= 1
    /\ calls.weather <= 1
    /\ calls.compose <= 1

\* C8 witness: a turn that ended after the provider call failed
C8_Witness ==
    /\ pc = "returned"
    /\ calls.weather = 1
    /\ IsErrorResult(weather_data)
    /\ weather_data.o["error"] = JStr(<<"Weather API request timed out">>)

\* C9: for the general action, or any action other than current_weather and
\* forecast, there is no weather call; the response is the LLM's text, or on
\* LLM failure the apology with the error detail.
C9_GeneralBranch ==
    (pc \in {"compose", "returned"} /\ ~InWeatherBranch)
    => /\ calls.weather = 0
       /\ request = NoRequest
       /\ (pc = "returned" /\ compose_reply.kind = "text"
           => response = JStr(compose_reply.text))
       /\ (pc = "returned" /\ compose_reply.kind = "fail"
           => /\ response.t = "str"
              /\ startswith(response.s,
                    <<"Sorry, I'm having trouble processing your request right now. Error: ">>)
              /\ ContainsText(response.s, compose_reply.err))

\* C9 witness: an unknown action answered by the apology
C9_Witness ==
    /\ pc = "returned"
    /\ action = JStr(<<"smalltalk">>)
    /\ compose_reply.kind = "fail"
    /\ calls.weather = 0
    /\ response = GeneralApology(compose_reply.err)

\* C10: every entry of the chat history has role user or assistant and a
\* text content.
C10_HistoryIsText ==
    \A i \in 1..Len(messages) :
        /\ messages[i].role \in {"user", "assistant"}
        /\ messages[i].content.t = "str"

\* C10 witness: a response of None stored as its text, then a second turn
C10_Witness ==
    /\ Len(messages) = 4
    /\ messages[2] = Msg("assistant", JStr(<<"None">>))
    /\ messages[4].role = "assistant"

\* the steps of one call of get_response (process_query included)
InGetResponse == pc \in {"classify", "dispatch", "weather", "compose"}

\* C11: process_query and get_response never change the chat history they
\* are given: no step of a call changes the list or any of its messages,
\* whether the call returns or raises.
C11_HistoryNotMutated == [][InGetResponse => messages' = messages]_vars

\* a second turn's call has read the history for its context and returned
C11_Witness ==
    /\ pc = "returned"
    /\ turns = 2
    /\ Len(messages) = 3
    /\ ContainsText(context, <<"Assistant: ">>)

Is404(net) == net.kind = "http" /\ net.status = 404

NamesLocation(result, loc) ==
    /\ IsErrorResult(result)
    /\ result.o["error"].t = "str"
    /\ ContainsText(result.o["error"].s, Fmt(loc))

\* C12: on an HTTP 404 both get_current_weather and get_forecast return an
\* error result (they do not raise) whose error string contains the
\* location that was submitted.
C12_NotFoundNamesLocation ==
    Is404(http_reply) =>
        /\ pc # "raised"
        /\ NamesLocation(weather_data, request.location)
        /\ NamesLocation(get_current_weather(location, http_reply), location)
        /\ NamesLocation(get_forecast(location, ForecastDefaultDays, http_reply), location)

C12_Witness ==
    /\ Is404(http_reply)
    /\ action = CurrentWeather
    /\ request = RealtimeRequest(JStr(<<"Paris">>))
    /\ ContainsText(weather_data.o["error"].s, <<"Paris">>)

RequiredFields == {"temperature", "humidity", "windSpeed"}

\* C13: for a current_weather request whose successful payload lacks a
\* required numeric field (temperature, humidity or wind speed) the response
\* is the literal incomplete-data message: a text that is neither what the
\* LLM said about the payload nor a summary of the fields that are there.
C13_IncompleteDataMessage ==
    (pc = "returned" /\ action = CurrentWeather /\ http_reply.kind = "ok"
        /\ HasValues(weather_data)
        /\ ~(RequiredFields \subseteq DOMAIN PayloadValues(weather_data)))
    => /\ response.t = "str"
       /\ (compose_reply.kind \in {"text", "notext"}
           => response # JStr(compose_reply.text))
       /\ ~Contains(response.s, "Current weather in ")

\* C14: no classification, weather fetch or composition runs unless the
\* LLM key and the key the WeatherAgent sends are both set: without either,
\* startup stops before a query is processed.
C14_NoOperationWithoutSecrets ==
    calls # NoCalls => (Truthy(GEMINI_API_KEY) /\ Truthy(TOMORROW_API_KEY))

FallbackFields == {"temperature", "humidity", "windSpeed", "visibility"}

\* C16: when the narration call fails for a current-weather request and the
\* payload has none of temperature, humidity, wind speed and visibility,
\* get_response returns the fixed unable-to-extract message.
C16_NothingExtractedUnable ==
    (pc = "returned" /\ action = CurrentWeather /\ compose_reply.kind = "fail"
        /\ HasValues(weather_data)
        /\ DOMAIN PayloadValues(weather_data) \cap FallbackFields = {})
    => response = UnableCurrent

HasEntries(timelines, g) ==
    /\ g \in DOMAIN timelines.o
    /\ IsList(timelines.o[g])
    /\ timelines.o[g].l # <<>>

\* the entries of the first granularity that has data
FirstWithData(timelines) ==
    IF HasEntries(timelines, "minutely") THEN timelines.o["minutely"].l
    ELSE IF HasEntries(timelines, "hourly") THEN timelines.o["hourly"].l
    ELSE IF HasEntries(timelines, "daily") THEN timelines.o["daily"].l
    ELSE <<>>

\* C17: when the narration call fails for a forecast request, the entries
\* rendered are the first 10 at most of the first granularity that has
\* data, in the order minutely, hourly, daily; the unable-to-extract
\* message is returned only when no granularity has entries.
C17_FirstGranularityWithData ==
    (pc = "returned" /\ action = Forecast /\ compose_reply.kind = "fail"
        /\ IsDict(weather_data) /\ IsDict(Get(weather_data, "timelines", JNull)))
    => LET entries == FirstWithData(weather_data.o["timelines"])
           shown == SubSeq(entries, 1, Min(Len(entries), 10))
       IN IF entries # <<>>
          THEN response = JStr(<<"Weather forecast for ">>
                               \o Fmt(PlaceName(weather_data, location))
                               \o <<":", "\n", "\n">> \o EntriesText(shown))
          ELSE response = UnableForecast

\* C18: when the classifier's response object has no text attribute,
\* process_query runs the sanitize-and-parse pipeline on str(response).
C18_NoTextCoerced ==
    (pc = "dispatch" /\ classify_reply.kind = "notext")
    => action_data = (LET p == ParseClassifierText(classify_reply.text)
                      IN IF p.ok THEN p.val ELSE DefaultAction)

\* C19: the history alternates user, assistant, user, assistant, ...: a
\* user message is followed by one assistant message before the next user
\* message, whatever get_response did in that turn.
C19_StrictAlternation ==
    \A i \in 1..Len(messages) :
        messages[i].role = IF i % 2 = 1 THEN "user" ELSE "assistant"

====
